---- MODULE Spec2Model ----
(***************************************************************************)
(* A model of StrKit (src/src/strkit.c), a library of ASCII string         *)
(* operations over NUL-terminated buffers.                                 *)
(*                                                                         *)
(* A buffer is the sequence of the bytes of its allocation, terminator     *)
(* included; the C index i of a buffer b is b[i + 1].  An absent (NULL)    *)
(* buffer is the empty sequence, which no allocation is (every C string    *)
(* holds at least its terminator).  The library's allocations live in      *)
(* heap; the address of a block is its index in heap, and 0 is NULL.       *)
(***************************************************************************)
EXTENDS Integers, Sequences, FiniteSets, TLC

VARIABLES
    buf,    \* the caller's text buffer (every byte of it), or Absent
    heap,   \* the blocks malloc handed out since the caller last held none
    freed,  \* the addresses passed to free since then, in order
    ret,    \* what the last call returned: a pointer [base, off]
    list,   \* the token list the caller holds (address of its container), or 0
    call,   \* the caller's note of the last call: the operation and its arguments
    wr,     \* the C indices of buf the last call wrote to
    fault   \* TRUE once a call read or freed what it must not

vars == <<buf, heap, freed, ret, list, call, wr, fault>>

-----------------------------------------------------------------------------
(* Bounds of the model *)

MaxLen == 3         \* longest text of the split/join life cycle
MaxTokens == 2      \* most tokens in an array the caller builds for str_join_n
MaxTokLen == 1      \* longest token in such an array
IdxSpan == 1        \* how far start and length range below 0 and above MaxLen
MaxWideLen == 2     \* longest text over the wide set of units
MaxTimes == 2       \* most repetitions asked of str_repeat_n
MaxPatLen == 2      \* longest pattern searched for, longest second operand compared
MaxClassLen == 2    \* longest text over the units at the ends of the character classes

-----------------------------------------------------------------------------
(* Bytes *)

NUL == 0
TAB == 9
LF == 10
VT == 11
FF == 12
CR == 13
SPACE == 32

Absent == <<>>

\* pointers: base 0 is NULL, base -1 the caller's buffer, base i >= 1 heap[i]
NULLP == [base |-> 0, off |-> 0]
BufP == [base |-> 0 - 1, off |-> 0]
HeapP(a) == [base |-> a, off |-> 0]

\* what malloc leaves in a fresh block
UNINIT == 0 - 1

At(b, i) == b[i + 1]

\* the NUL-terminated texts of at most n units over the units U
CStrings(U, n) == { Append(s, NUL) : s \in UNION { [1..k -> U] : k \in 0..n } }

-----------------------------------------------------------------------------
(* str_len *)

RECURSIVE StrLenFrom(_, _)
StrLenFrom(text, i) == IF At(text, i) = NUL THEN i ELSE StrLenFrom(text, i + 1)

str_len(text) == IF text = Absent THEN 0 ELSE StrLenFrom(text, 0)

\* the units of a buffer before its terminator
Content(b) == SubSeq(b, 1, str_len(b))

-----------------------------------------------------------------------------
(* The allocator.  m is [heap, freed, fault]: the blocks, the addresses      *)
(* passed to free in order, and whether a free was invalid or repeated.      *)

Mem(h) == [heap |-> h, freed |-> <<>>, fault |-> FALSE]

Range(s) == { s[i] : i \in 1..Len(s) }

Live(h, fr) == (1..Len(h)) \ Range(fr)

free(m, addr) ==
    IF addr = 0 THEN m
    ELSE [m EXCEPT !.freed = Append(@, addr),
                   !.fault = @ \/ addr \notin Live(m.heap, m.freed)]

-----------------------------------------------------------------------------
(* str_split *)

\* first pass: one token plus one per delimiter
RECURSIVE SplitCount(_, _, _, _)
SplitCount(text, delimiter, ptr, token_count) ==
    IF At(text, ptr) = NUL THEN token_count
    ELSE SplitCount(text, delimiter, ptr + 1,
                    IF At(text, ptr) = delimiter THEN token_count + 1 ELSE token_count)

\* SplitToken with the copy loop stopping one unit early
SplitTokenShort(text, token_start, token_length) ==
    [i \in 1..(token_length + 1) |->
        IF i <= token_length - 1 THEN At(text, token_start + i - 1) ELSE NUL]

\* the token copied out of text[token_start .. token_start + token_length)
SplitToken(text, token_start, token_length) ==
    [i \in 1..(token_length + 1) |->
        IF i <= token_length THEN At(text, token_start + i - 1) ELSE NUL]

\* second pass; the failAt-th malloc of the call returns NULL (0: none does)
RECURSIVE SplitFill(_, _, _, _, _, _, _)
SplitFill(text, delimiter, ptr, token_start, result_ptr, h, failAt) ==
    IF At(text, ptr) = delimiter \/ At(text, ptr) = NUL
    THEN IF Len(h) + 1 = failAt
         THEN [success |-> 0, result_ptr |-> result_ptr, heap |-> h]
         ELSE LET token == SplitToken(text, token_start, ptr - token_start)
                  h2 == Append([h EXCEPT ![1][result_ptr + 1] = Len(h) + 1], token)
              IN  IF At(text, ptr) = NUL
                  THEN [success |-> 1, result_ptr |-> result_ptr + 1, heap |-> h2]
                  ELSE SplitFill(text, delimiter, ptr + 1, ptr + 1,
                                 result_ptr + 1, h2, failAt)
    ELSE SplitFill(text, delimiter, ptr + 1, token_start, result_ptr, h, failAt)

\* SplitCleanup that releases the tokens but the first
RECURSIVE SplitCleanupSkip(_, _, _)
SplitCleanupSkip(m, p, result_ptr) ==
    IF p + 1 < result_ptr
    THEN SplitCleanupSkip(free(m, m.heap[1][p + 2]), p + 1, result_ptr)
    ELSE m

\* for (p = result; p < result_ptr; p++) free(*p);
RECURSIVE SplitCleanup(_, _, _)
SplitCleanup(m, p, result_ptr) ==
    IF p < result_ptr
    THEN SplitCleanup(free(m, m.heap[1][p + 1]), p + 1, result_ptr)
    ELSE m

\* the end of the call: terminate and return the array, or release everything
SplitFinish(f) ==
    IF f.success = 1
    THEN [ret |-> 1, mem |-> Mem([f.heap EXCEPT ![1][f.result_ptr + 1] = 0])]
    ELSE [ret |-> 0, mem |-> free(SplitCleanup(Mem(f.heap), 0, f.result_ptr), 1)]

\* the whole call: the address returned (0: NULL) and the memory it leaves
str_split(text, delimiter, failAt) ==
    IF text = Absent THEN [ret |-> 0, mem |-> Mem(<<>>)]
    ELSE LET token_count == SplitCount(text, delimiter, 0, 1)
         IN  IF failAt = 1 THEN [ret |-> 0, mem |-> Mem(<<>>)]
             ELSE SplitFinish(
                    SplitFill(text, delimiter, 0, 0, 0,
                              << [i \in 1..(token_count + 1) |-> UNINIT] >>,
                              failAt))

-----------------------------------------------------------------------------
(* free_strs *)

\* for (ptr = result; *ptr; ptr++) free(*ptr);
RECURSIVE FreeStrsLoop(_, _, _)
FreeStrsLoop(m, result, ptr) ==
    LET arr == m.heap[result]
    IN  IF ptr >= Len(arr) THEN [m EXCEPT !.fault = TRUE]
        ELSE IF arr[ptr + 1] = 0 THEN m
        ELSE FreeStrsLoop(free(m, arr[ptr + 1]), result, ptr + 1)

\* free_strs that releases the tokens and leaves the container
free_strs_tokens_only(m, result) ==
    IF result = 0 THEN m
    ELSE FreeStrsLoop(m, result, 0)

free_strs(m, result) ==
    IF result = 0 THEN m
    ELSE free(FreeStrsLoop(m, result, 0), result)

-----------------------------------------------------------------------------
(* int.  The lengths, indices and counts of the library are ints of 32 bits. *)
(* A sum or product that does not fit is undefined behaviour: a build either *)
(* keeps the low 32 bits (wraps) or stops the program there (traps).         *)

MaxInt == 2147483647
MinInt == (0 - MaxInt) - 1

\* a + b does not fit an int
AddOverflows(a, b) == IF b >= 0 THEN a > MaxInt - b ELSE a < MinInt - b

\* a + b as 32 bits hold it
IntAdd(a, b) ==
    IF ~AddOverflows(a, b) THEN a + b
    ELSE IF b >= 0 THEN ((a + MinInt) + b) + MinInt
    ELSE (((a + MaxInt) + 1) + b) + MaxInt + 1

\* a * b does not fit an int, for a > 0
MulOverflows(a, b) == b > MaxInt \div a \/ b < MinInt \div a

\* a * b as 32 bits hold it, for a >= 0: b added a times
RECURSIVE IntMul(_, _)
IntMul(a, b) ==
    IF a = 0 THEN 0
    ELSE LET rest == IntMul(a - 1, b)
         IN  IntAdd(rest, b)

-----------------------------------------------------------------------------
(* The private helpers *)

\* char_capitalize that leaves 'a' as it is
char_capitalize_open(c) == IF c > 97 /\ c <= 122 THEN c - 32 ELSE c

char_capitalize(c) == IF c >= 97 /\ c <= 122 THEN c - 32 ELSE c

char_decapitalize(c) == IF c >= 65 /\ c <= 90 THEN c + 32 ELSE c

\* is_whitespace without the vertical tab
is_whitespace_no_vt(c) ==
    c = SPACE \/ c = TAB \/ c = LF \/ c = CR \/ c = FF

is_whitespace(c) ==
    c = SPACE \/ c = TAB \/ c = LF \/ c = CR \/ c = FF \/ c = VT

-----------------------------------------------------------------------------
(* The in-place operations.  A call works on st = [s, wr], the bytes of the  *)
(* buffer and the C indices written so far, and returns [s, wr, ret].        *)

St(s) == [s |-> s, wr |-> {}]

\* s[i] = v
Put(st, i, v) == [s |-> [st.s EXCEPT ![i + 1] = v], wr |-> st.wr \cup {i}]

\* return text;
Returns(st, p) == [s |-> st.s, wr |-> st.wr, ret |-> p]

\* while (start < end) { temp = *start; *start++ = *end; *end-- = temp; }
RECURSIVE ReverseLoop(_, _, _)
ReverseLoop(st, start, end) ==
    IF start < end
    THEN LET temp == At(st.s, start)
         IN  ReverseLoop(Put(Put(st, start, At(st.s, end)), end, temp),
                         start + 1, end - 1)
    ELSE st

str_reverse(text) ==
    IF text = Absent THEN Returns(St(text), NULLP)
    ELSE Returns(ReverseLoop(St(text), 0, str_len(text) - 1), BufP)

str_capitalize(text) ==
    IF text = Absent THEN Returns(St(text), NULLP)
    ELSE IF At(text, 0) = NUL THEN Returns(St(text), BufP)
    ELSE Returns(Put(St(text), 0, char_capitalize(At(text, 0))), BufP)

\* while (*p) { *p = char_capitalize(*p); p++; }
RECURSIVE UppercaseLoop(_, _)
UppercaseLoop(st, p) ==
    IF At(st.s, p) # NUL
    THEN UppercaseLoop(Put(st, p, char_capitalize(At(st.s, p))), p + 1)
    ELSE st

str_uppercase(text) ==
    IF text = Absent THEN Returns(St(text), NULLP)
    ELSE Returns(UppercaseLoop(St(text), 0), BufP)

\* while (*p) { *p = char_decapitalize(*p); p++; }
RECURSIVE LowercaseLoop(_, _)
LowercaseLoop(st, p) ==
    IF At(st.s, p) # NUL
    THEN LowercaseLoop(Put(st, p, char_decapitalize(At(st.s, p))), p + 1)
    ELSE st

str_lowercase(text) ==
    IF text = Absent THEN Returns(St(text), NULLP)
    ELSE Returns(LowercaseLoop(St(text), 0), BufP)

\* TitleLoop that leaves the units after the first of a word as they are
RECURSIVE TitleLoopKeep(_, _, _)
TitleLoopKeep(st, p, capitalize_next) ==
    IF At(st.s, p) # NUL
    THEN IF is_whitespace(At(st.s, p)) THEN TitleLoopKeep(st, p + 1, 1)
         ELSE IF capitalize_next # 0
              THEN TitleLoopKeep(Put(st, p, char_capitalize(At(st.s, p))), p + 1, 0)
         ELSE TitleLoopKeep(st, p + 1, capitalize_next)
    ELSE st

RECURSIVE TitleLoop(_, _, _)
TitleLoop(st, p, capitalize_next) ==
    IF At(st.s, p) # NUL
    THEN IF is_whitespace(At(st.s, p)) THEN TitleLoop(st, p + 1, 1)
         ELSE IF capitalize_next # 0
              THEN TitleLoop(Put(st, p, char_capitalize(At(st.s, p))), p + 1, 0)
         ELSE TitleLoop(Put(st, p, char_decapitalize(At(st.s, p))), p + 1,
                        capitalize_next)
    ELSE st

str_title(text) ==
    IF text = Absent THEN Returns(St(text), NULLP)
    ELSE Returns(TitleLoop(St(text), 0, 1), BufP)

\* while (*ptr) { if (*ptr == find) *ptr = replace; ptr++; }
RECURSIVE ReplaceLoop(_, _, _, _)
ReplaceLoop(st, ptr, find, replace) ==
    IF At(st.s, ptr) # NUL
    THEN ReplaceLoop(IF At(st.s, ptr) = find THEN Put(st, ptr, replace) ELSE st,
                     ptr + 1, find, replace)
    ELSE st

str_replace_char(text, find, replace) ==
    IF text = Absent THEN Returns(St(text), NULLP)
    ELSE Returns(ReplaceLoop(St(text), 0, find, replace), BufP)

\* while (*start && is_whitespace(*start)) start++;
RECURSIVE SkipLeading(_, _)
SkipLeading(s, start) ==
    IF At(s, start) # NUL /\ is_whitespace(At(s, start))
    THEN SkipLeading(s, start + 1)
    ELSE start

\* TrimBack with an if for the while: at most one unit is dropped
TrimBackOnce(s, start, end) ==
    IF end > start /\ is_whitespace(At(s, end)) THEN end - 1 ELSE end

\* while (end > start && is_whitespace(*end)) end--;
RECURSIVE TrimBack(_, _, _)
TrimBack(s, start, end) ==
    IF end > start /\ is_whitespace(At(s, end)) THEN TrimBack(s, start, end - 1)
    ELSE end

\* while ((*dest++ = *start++));
RECURSIVE TrimMove(_, _, _)
TrimMove(st, dest, start) ==
    LET c == At(st.s, start)
    IN  IF c # NUL THEN TrimMove(Put(st, dest, c), dest + 1, start + 1)
        ELSE Put(st, dest, c)

str_trim(s) ==
    IF s = Absent THEN Returns(St(s), NULLP)
    ELSE LET start == SkipLeading(s, 0)
         IN  IF At(s, start) = NUL THEN Returns(Put(St(s), 0, NUL), BufP)
             ELSE LET end == TrimBack(s, start, str_len(s) - 1)
                      cut == Put(St(s), end + 1, NUL)
                  IN  Returns(IF start > 0 THEN TrimMove(cut, 0, start) ELSE cut,
                              BufP)

\* for (i = 0; i <= len; ++i) s[i] = start[i];
RECURSIVE LtrimShift(_, _, _, _)
LtrimShift(st, start, i, len) ==
    IF i <= len THEN LtrimShift(Put(st, i, At(st.s, start + i)), start, i + 1, len)
    ELSE st

\* str_ltrim that returns the first unit kept where it lies, shifting nothing
str_ltrim_interior(s) ==
    IF s = Absent THEN Returns(St(s), NULLP)
    ELSE Returns(St(s), [base |-> 0 - 1, off |-> SkipLeading(s, 0)])

str_ltrim(s) ==
    IF s = Absent THEN Returns(St(s), NULLP)
    ELSE LET start == SkipLeading(s, 0)
         IN  IF start # 0
             THEN Returns(LtrimShift(St(s), start, 0, str_len(s) - start), BufP)
             ELSE Returns(St(s), BufP)

\* while (end >= s && is_whitespace(*end)) end--;
RECURSIVE RtrimBack(_, _)
RtrimBack(s, end) ==
    IF end >= 0 /\ is_whitespace(At(s, end)) THEN RtrimBack(s, end - 1) ELSE end

str_rtrim(s) ==
    IF s = Absent THEN Returns(St(s), NULLP)
    ELSE LET len == str_len(s)
         IN  IF len = 0 THEN Returns(St(s), BufP)
             ELSE Returns(Put(St(s), RtrimBack(s, len - 1) + 1, NUL), BufP)

-----------------------------------------------------------------------------
(* The copying operations.  Each makes one malloc, which succeeds or not     *)
(* (ok), and yields [size, got, data]: the size it asks for (0: it returns   *)
(* NULL before any malloc), whether it got a block, and the bytes it then    *)
(* writes through the pointer malloc returned, from its start.               *)

NoAlloc == [size |-> 0, got |-> FALSE, data |-> <<>>]

\* result = malloc(size); if (!result) return NULL; <writes data>; return result;
Malloc(size, ok, data) ==
    [size |-> size, got |-> ok, data |-> IF ok THEN data ELSE <<>>]

\* empty = malloc(1); if (empty) *empty = '\0'; return empty;
Empty(ok) == Malloc(1, ok, <<NUL>>)

\* the program stopped at an int overflow, before any malloc
Trapped ==
    [size |-> 0, got |-> FALSE, data |-> <<>>, trap |-> TRUE, last |-> 0 - 1,
     over |-> FALSE]

\* malloc(size) for an int size: a negative one is a size_t no malloc can give
MallocInt(size, ok, data) == Malloc(size, ok /\ size >= 0, data)


\* for (i = 0; i < n; i++) result[i] = src[from + i];  result[n] = '\0';
CopyOut(src, from, n) ==
    [i \in 1..(n + 1) |-> IF i <= n THEN At(src, from + i - 1) ELSE NUL]

\* ReverseCopy that starts one unit too far, at the terminator
RECURSIVE ReverseCopyFromEnd(_, _, _, _)
ReverseCopyFromEnd(text, src, length, dest) ==
    IF length # 0
    THEN ReverseCopyFromEnd(text, src - 1, length - 1, Append(dest, At(text, src + 1)))
    ELSE dest

\* while (length--) *dest++ = *src--;  the bytes written, in order
RECURSIVE ReverseCopy(_, _, _, _)
ReverseCopy(text, src, length, dest) ==
    IF length # 0 THEN ReverseCopy(text, src - 1, length - 1, Append(dest, At(text, src)))
    ELSE dest

\* str_reverse_n that takes an absent text for the empty one
str_reverse_n_lenient(text, ok) ==
    LET t == IF text = Absent THEN <<NUL>> ELSE text
        length == str_len(t)
    IN  Malloc(length + 1, ok,
               (IF length > 0 THEN ReverseCopy(t, length - 1, length, <<>>)
                ELSE <<>>) \o <<NUL>>)

str_reverse_n(text, ok) ==
    IF text = Absent THEN NoAlloc
    ELSE LET length == str_len(text)
         IN  Malloc(length + 1, ok,
                    (IF length > 0 THEN ReverseCopy(text, length - 1, length, <<>>)
                     ELSE <<>>) \o <<NUL>>)

\* str_capitalize_n that copies the text as it is
str_capitalize_n_plain(text, ok) ==
    IF text = Absent THEN NoAlloc
    ELSE Malloc(str_len(text) + 1, ok, CopyOut(text, 0, str_len(text)))

str_capitalize_n(text, ok) ==
    IF text = Absent THEN NoAlloc
    ELSE IF At(text, 0) = NUL THEN Empty(ok)
    ELSE LET len == str_len(text)
         IN  Malloc(len + 1, ok,
                    [i \in 1..(len + 1) |->
                        IF i = 1 THEN char_capitalize(At(text, 0))
                        ELSE IF i <= len THEN At(text, i - 1)
                        ELSE NUL])

\* while (*src) *dest++ = char_capitalize(*src++);  *dest = '\0';
RECURSIVE UppercaseCopy(_, _, _)
UppercaseCopy(text, src, dest) ==
    IF At(text, src) # NUL
    THEN UppercaseCopy(text, src + 1, Append(dest, char_capitalize(At(text, src))))
    ELSE Append(dest, NUL)

str_uppercase_n(text, ok) ==
    IF text = Absent THEN NoAlloc
    ELSE Malloc(str_len(text) + 1, ok, UppercaseCopy(text, 0, <<>>))

\* while (*src) *dest++ = char_decapitalize(*src++);  *dest = '\0';
RECURSIVE LowercaseCopy(_, _, _)
LowercaseCopy(text, src, dest) ==
    IF At(text, src) # NUL
    THEN LowercaseCopy(text, src + 1, Append(dest, char_decapitalize(At(text, src))))
    ELSE Append(dest, NUL)

str_lowercase_n(text, ok) ==
    IF text = Absent THEN NoAlloc
    ELSE Malloc(str_len(text) + 1, ok, LowercaseCopy(text, 0, <<>>))

\* while (*src) { *dest++ = (*src == find) ? replace : *src; src++; }  *dest = '\0';
RECURSIVE ReplaceCopy(_, _, _, _, _)
ReplaceCopy(text, src, find, replace, dest) ==
    IF At(text, src) # NUL
    THEN ReplaceCopy(text, src + 1, find, replace,
                     Append(dest, IF At(text, src) = find THEN replace
                                  ELSE At(text, src)))
    ELSE Append(dest, NUL)

str_replace_char_n(text, find, replace, ok) ==
    IF text = Absent THEN NoAlloc
    ELSE Malloc(str_len(text) + 1, ok, ReplaceCopy(text, 0, find, replace, <<>>))

\* str_concat_n that gives up on an absent operand
str_concat_n_strict(s1, s2, ok) ==
    IF s1 = Absent \/ s2 = Absent THEN NoAlloc
    ELSE LET l1 == str_len(s1)
             l2 == str_len(s2)
         IN  Malloc(l1 + l2 + 1, ok,
                    [i \in 1..(l1 + l2 + 1) |->
                        IF i <= l1 THEN At(s1, i - 1)
                        ELSE IF i <= l1 + l2 THEN At(s2, i - l1 - 1)
                        ELSE NUL])

\* if (!s1) s1 = "";  if (!s2) s2 = "";  then both are copied into one block
str_concat_n(s1, s2, ok) ==
    LET a == IF s1 = Absent THEN <<NUL>> ELSE s1
        b == IF s2 = Absent THEN <<NUL>> ELSE s2
        l1 == str_len(a)
        l2 == str_len(b)
    IN  Malloc(l1 + l2 + 1, ok,
               [i \in 1..(l1 + l2 + 1) |->
                   IF i <= l1 THEN At(a, i - 1)
                   ELSE IF i <= l1 + l2 THEN At(b, i - l1 - 1)
                   ELSE NUL])

\* RepeatFill that makes one copy too few
RECURSIVE RepeatFillShort(_, _, _, _, _, _)
RepeatFillShort(text, len, times, i, dest, room) ==
    IF i < times - 1 /\ Len(dest) <= room
    THEN RepeatFillShort(text, len, times, i + 1,
                         dest \o [j \in 1..len |-> At(text, j - 1)], room)
    ELSE Append(dest, NUL)

\* for (i = 0; i < times; i++) { for (j = 0; j < len; j++) dest[j] = text[j]; dest += len; }
\* *dest = '\0';  the bytes written, in order, into a block of room bytes; the
\* loop is followed until it has written past the end of the block
RECURSIVE RepeatFill(_, _, _, _, _, _)
RepeatFill(text, len, times, i, dest, room) ==
    IF i < times /\ Len(dest) <= room
    THEN RepeatFill(text, len, times, i + 1,
                    dest \o [j \in 1..len |-> At(text, j - 1)], room)
    ELSE Append(dest, NUL)

\* int result_len = len * times;  the size malloc(result_len + 1) is asked
\* for, as 32 bits hold it
RepeatRequest(len, times) == IntAdd(IntMul(len, times), 1)

\* the call with the overflow of an int either kept to its low 32 bits
\* (wraps) or stopping the program
str_repeat_n(text, times, ok, wraps) ==
    IF text = Absent THEN NoAlloc
    ELSE IF times <= 0 THEN Empty(ok)
    ELSE LET len == str_len(text)
         IN  IF len = 0 THEN Empty(ok)
             ELSE IF MulOverflows(len, times) /\ ~wraps THEN Trapped
             ELSE LET result_len == IntMul(len, times)
                  IN  IF AddOverflows(result_len, 1) /\ ~wraps THEN Trapped
                      ELSE LET size == RepeatRequest(len, times)
                           IN  MallocInt(size, ok,
                                         RepeatFill(text, len, times, 0, <<>>, size))

str_title_n(text, ok) ==
    IF text = Absent THEN NoAlloc
    ELSE LET len == str_len(text)
         IN  Malloc(len + 1, ok, str_title(CopyOut(text, 0, len)).s)

str_trim_n(s, ok) ==
    IF s = Absent THEN NoAlloc
    ELSE LET start == SkipLeading(s, 0)
         IN  IF At(s, start) = NUL THEN Empty(ok)
             ELSE LET end == TrimBack(s, start, str_len(s) - 1)
                      new_len == end - start + 1
                  IN  Malloc(new_len + 1, ok, CopyOut(s, start, new_len))

str_ltrim_n(s, ok) ==
    IF s = Absent THEN NoAlloc
    ELSE LET start == SkipLeading(s, 0)
             new_len == str_len(s) - start
         IN  Malloc(new_len + 1, ok, CopyOut(s, start, new_len))

str_rtrim_n(s, ok) ==
    IF s = Absent THEN NoAlloc
    ELSE LET len == str_len(s)
         IN  IF len = 0 THEN Empty(ok)
             ELSE LET new_len == RtrimBack(s, len - 1) + 1
                  IN  IF new_len <= 0 THEN Empty(ok)
                      ELSE Malloc(new_len + 1, ok, CopyOut(s, 0, new_len))

\* SubstringLength without the test for a negative length
SubstringLengthSigned(text_len, start, length) ==
    IF IntAdd(start, length) > text_len THEN text_len - start ELSE length

\* length after "if (length < 0 || start + length > text_len) length = text_len - start;"
SubstringLength(text_len, start, length) ==
    IF length < 0 \/ IntAdd(start, length) > text_len THEN text_len - start ELSE length

\* for (i = 0; i < length; i++) result[i] = text[start + i];  the units copied
\* until the loop ends or reads outside the buffer of text
RECURSIVE SubstringCopy(_, _, _, _, _)
SubstringCopy(text, start, length, i, dest) ==
    IF i < length /\ start + i < Len(text)
    THEN SubstringCopy(text, start, length, i + 1, Append(dest, At(text, start + i)))
    ELSE dest

\* a result r with what the copy loop read of the text: the highest index
\* (-1: nothing), and whether it read outside the buffer
Reading(r, last, over) ==
    [size |-> r.size, got |-> r.got, data |-> r.data, trap |-> FALSE,
     last |-> IF r.got THEN last ELSE 0 - 1, over |-> r.got /\ over]

str_substring_n(text, start, length, ok, wraps) ==
    IF text = Absent THEN Reading(NoAlloc, 0 - 1, FALSE)
    ELSE LET text_len == str_len(text)
             start1 == IF start < 0 THEN 0 ELSE start
         IN  IF start1 >= text_len THEN Reading(Empty(ok), 0 - 1, FALSE)
             ELSE IF length >= 0 /\ AddOverflows(start1, length) /\ ~wraps
             THEN Trapped
             ELSE LET length1 == SubstringLength(text_len, start1, length)
                      room == Len(text) - start1
                      data == SubstringCopy(text, start1, length1, 0, <<>>)
                  IN  IF AddOverflows(length1, 1) /\ ~wraps
                      THEN Trapped
                      ELSE Reading(MallocInt(IntAdd(length1, 1), ok,
                                             IF length1 > room THEN data
                                             ELSE Append(data, NUL)),
                                   IF length1 > room THEN start1 + room
                                   ELSE IF length1 = 0 THEN 0 - 1
                                   ELSE start1 + length1 - 1,
                                   length1 > room)

-----------------------------------------------------------------------------
(* str_join_n.  str is the array with its pointers followed: a sequence of   *)
(* buffers that an Absent entry ends; an absent array is Absent itself.      *)

\* the token array behind a container of the heap
Tokens(h, a) ==
    [i \in 1..Len(h[a]) |-> IF h[a][i] \in 1..Len(h) THEN h[h[a][i]] ELSE Absent]

\* first pass: [total_len, count]
RECURSIVE JoinMeasure(_, _, _, _)
JoinMeasure(str, ptr, total_len, count) ==
    IF At(str, ptr) = Absent THEN [total_len |-> total_len, count |-> count]
    ELSE JoinMeasure(str, ptr + 1, total_len + str_len(At(str, ptr)), count + 1)

\* JoinFill that puts no separator after an empty token
RECURSIVE JoinFillSkipEmpty(_, _, _, _, _)
JoinFillSkipEmpty(str, sep, i, count, dest) ==
    IF i < count
    THEN LET part == Content(At(str, i))
         IN  JoinFillSkipEmpty(str, sep, i + 1, count,
                               IF i < count - 1 /\ part # <<>>
                               THEN dest \o part \o <<sep>>
                               ELSE dest \o part)
    ELSE dest \o <<NUL>>

\* JoinFill that writes each separator before its token instead of after it
RECURSIVE JoinFillLeading(_, _, _, _, _)
JoinFillLeading(str, sep, i, count, dest) ==
    IF i < count
    THEN JoinFillLeading(str, sep, i + 1, count,
                         IF count > 1 /\ i < count - 1
                         THEN dest \o <<sep>> \o Content(At(str, i))
                         ELSE dest \o Content(At(str, i)))
    ELSE dest \o <<NUL>>

\* second pass: the bytes written at dest, in order
RECURSIVE JoinFill(_, _, _, _, _)
JoinFill(str, sep, i, count, dest) ==
    IF i < count
    THEN LET part == Content(At(str, i))
         IN  JoinFill(str, sep, i + 1, count,
                      IF i < count - 1 THEN dest \o part \o <<sep>> ELSE dest \o part)
    ELSE dest \o <<NUL>>

str_join_n(str, sep, ok) ==
    IF str = Absent THEN NoAlloc
    ELSE LET ms == JoinMeasure(str, 0, 0, 0)
         IN  IF ms.count = 0 THEN Empty(ok)
             ELSE Malloc(ms.total_len + (ms.count - 1) + 1, ok,
                         JoinFill(str, sep, 0, ms.count, <<>>))

-----------------------------------------------------------------------------
(* The queries.  They read their text and write nothing.                     *)

\* IndexMatch that takes the end of the text for a match of the rest of the needle
RECURSIVE IndexMatchPastEnd(_, _, _, _)
IndexMatchPastEnd(text, substring, needle, h) ==
    IF At(substring, needle) # NUL /\ At(text, h) # NUL
    THEN IF At(substring, needle) = At(text, h)
         THEN IndexMatchPastEnd(text, substring, needle + 1, h + 1)
         ELSE needle
    ELSE StrLenFrom(substring, needle)

\* while (*needle && *h && *needle == *h) { needle++; h++; }  where needle stops
RECURSIVE IndexMatch(_, _, _, _)
IndexMatch(text, substring, needle, h) ==
    IF At(substring, needle) # NUL /\ At(text, h) # NUL
       /\ At(substring, needle) = At(text, h)
    THEN IndexMatch(text, substring, needle + 1, h + 1)
    ELSE needle

\* while (*haystack) { ...; if (!*needle) return haystack - text; haystack++; }
\* return -1;
RECURSIVE IndexScan(_, _, _)
IndexScan(text, substring, haystack) ==
    IF At(text, haystack) # NUL
    THEN IF At(substring, IndexMatch(text, substring, 0, haystack)) = NUL
         THEN haystack
         ELSE IndexScan(text, substring, haystack + 1)
    ELSE 0 - 1

index_of_str(text, substring) ==
    IF text = Absent \/ substring = Absent THEN 0 - 1
    ELSE IF At(substring, 0) = NUL THEN 0
    ELSE IndexScan(text, substring, 0)

\* str_contains that takes a match at index 0 for none
str_contains_positive(text, substring) ==
    IF index_of_str(text, substring) > 0 THEN 1 ELSE 0

str_contains(text, substring) ==
    IF index_of_str(text, substring) >= 0 THEN 1 ELSE 0

\* while (*s) { if (*s < '0' || *s > '9') return 0; s++; }  return 1;
RECURSIVE NumericLoop(_, _)
NumericLoop(s, i) ==
    IF At(s, i) # NUL
    THEN IF At(s, i) < 48 \/ At(s, i) > 57 THEN 0 ELSE NumericLoop(s, i + 1)
    ELSE 1

str_is_numeric(s) ==
    IF s = Absent \/ At(s, 0) = NUL THEN 0 ELSE NumericLoop(s, 0)

RECURSIVE AlphaLoop(_, _)
AlphaLoop(s, i) ==
    IF At(s, i) # NUL
    THEN IF ~(\/ At(s, i) >= 65 /\ At(s, i) <= 90
              \/ At(s, i) >= 97 /\ At(s, i) <= 122)
         THEN 0
         ELSE AlphaLoop(s, i + 1)
    ELSE 1

str_is_alpha(s) ==
    IF s = Absent \/ At(s, 0) = NUL THEN 0 ELSE AlphaLoop(s, 0)

\* AlphaNumericLoop that takes every unit from '0' to 'z' for one of the class
RECURSIVE AlphaNumericLoopWide(_, _)
AlphaNumericLoopWide(s, i) ==
    IF At(s, i) # NUL
    THEN IF ~(At(s, i) >= 48 /\ At(s, i) <= 122) THEN 0
         ELSE AlphaNumericLoopWide(s, i + 1)
    ELSE 1

RECURSIVE AlphaNumericLoop(_, _)
AlphaNumericLoop(s, i) ==
    IF At(s, i) # NUL
    THEN IF ~(\/ At(s, i) >= 65 /\ At(s, i) <= 90
              \/ At(s, i) >= 97 /\ At(s, i) <= 122
              \/ At(s, i) >= 48 /\ At(s, i) <= 57)
         THEN 0
         ELSE AlphaNumericLoop(s, i + 1)
    ELSE 1

str_is_alpha_numeric(s) ==
    IF s = Absent \/ At(s, 0) = NUL THEN 0 ELSE AlphaNumericLoop(s, 0)

\* EqualLoop that stops at the end of s1 without looking at s2
RECURSIVE EqualLoopPrefix(_, _, _)
EqualLoopPrefix(s1, s2, i) ==
    IF At(s1, i) # NUL
    THEN IF At(s1, i) = At(s2, i) THEN EqualLoopPrefix(s1, s2, i + 1) ELSE 0
    ELSE 1

\* while (*s1 && (*s1 == *s2)) { s1++; s2++; }  return (*s1 == *s2);
RECURSIVE EqualLoop(_, _, _)
EqualLoop(s1, s2, i) ==
    IF At(s1, i) # NUL /\ At(s1, i) = At(s2, i) THEN EqualLoop(s1, s2, i + 1)
    ELSE IF At(s1, i) = At(s2, i) THEN 1 ELSE 0

str_is_equal(s1, s2) ==
    IF s1 = Absent /\ s2 = Absent THEN 1
    ELSE IF s1 = Absent \/ s2 = Absent THEN 0
    ELSE EqualLoop(s1, s2, 0)

\* while (front < back) { if (*front++ != *back--) return 0; }  return 1;
RECURSIVE PalindromeLoop(_, _, _)
PalindromeLoop(text, front, back) ==
    IF front < back
    THEN IF At(text, front) # At(text, back) THEN 0
         ELSE PalindromeLoop(text, front + 1, back - 1)
    ELSE 1

\* str_is_palindrome that also takes every text of two units for a palindrome
str_is_palindrome_short(text) ==
    IF text = Absent THEN 0
    ELSE LET len == str_len(text)
         IN  IF len <= 2 THEN 1 ELSE PalindromeLoop(text, 0, len - 1)

str_is_palindrome(text) ==
    IF text = Absent THEN 0
    ELSE LET len == str_len(text)
         IN  IF len <= 1 THEN 1 ELSE PalindromeLoop(text, 0, len - 1)

\* The character accessors yield [ret, rd]: the unit returned and the C
\* indices of the text they read to find it (str_len reads up to the
\* terminator).
LenReads(text) == 0..str_len(text)

str_first_char(text) ==
    IF text = Absent THEN [ret |-> NUL, rd |-> {}]
    ELSE [ret |-> At(text, 0), rd |-> {0}]

str_last_char(text) ==
    IF text = Absent THEN [ret |-> NUL, rd |-> {}]
    ELSE IF At(text, 0) = NUL THEN [ret |-> NUL, rd |-> {0}]
    ELSE LET len == str_len(text)
         IN  [ret |-> At(text, len - 1), rd |-> LenReads(text) \cup {len - 1}]

\* str_char_at that counts its index from one
str_char_at_from_one(text, index) ==
    IF text = Absent \/ index < 1 THEN [ret |-> NUL, rd |-> {}]
    ELSE LET len == str_len(text)
         IN  IF index > len THEN [ret |-> NUL, rd |-> LenReads(text)]
             ELSE [ret |-> At(text, index - 1), rd |-> LenReads(text) \cup {index - 1}]

str_char_at(text, index) ==
    IF text = Absent \/ index < 0 THEN [ret |-> NUL, rd |-> {}]
    ELSE LET len == str_len(text)
         IN  IF index >= len THEN [ret |-> NUL, rd |-> LenReads(text)]
             ELSE [ret |-> At(text, index), rd |-> LenReads(text) \cup {index}]

-----------------------------------------------------------------------------
(* The split/join life cycle: the caller splits its text, may join the       *)
(* tokens again, and releases what it holds.  A behaviour is one life cycle. *)

SplitUnits == {32, 44, 97}          \* ' '  ','  'a'
Delims == {NUL, 44, 59, 97}         \* the terminator, ',', ';' (never in a text), 'a'
JoinUnits == {44, 97}

SplitTexts == CStrings(SplitUnits, MaxLen)

\* the NULL-terminated arrays a caller builds for str_join_n
TokenArrays ==
    { Append(a, Absent) :
        a \in UNION { [1..n -> CStrings(JoinUnits, MaxTokLen)] : n \in 0..MaxTokens } }

NoCall == [op |-> "none"]

\* the caller holds the buffer b and has called nothing yet
Start(b) ==
    /\ buf = b
    /\ heap = <<>>
    /\ freed = <<>>
    /\ ret = NULLP
    /\ list = 0
    /\ call = NoCall
    /\ wr = {}
    /\ fault = FALSE

Init == \E b \in SplitTexts \cup {Absent} : Start(b)

\* the block of a call that yields r: the bytes written, those left as malloc
\* gave them, and whether a write fell outside the block
Filled(r) ==
    [block |-> SubSeq(r.data, 1, IF Len(r.data) < r.size THEN Len(r.data) ELSE r.size)
               \o [i \in 1..(r.size - Len(r.data)) |-> UNINIT],
     fault |-> Len(r.data) > r.size]

\* tokens = str_split(buf, d)
Split(d, failAt) ==
    /\ call.op = "none"
    /\ LET r == str_split(buf, d, failAt)
       IN  /\ heap' = r.mem.heap
           /\ freed' = r.mem.freed
           /\ fault' = r.mem.fault
           /\ ret' = HeapP(r.ret)
           /\ list' = r.ret
    /\ call' = [op |-> "str_split", text |-> buf, ch |-> d, failAt |-> failAt]
    /\ UNCHANGED <<buf, wr>>

\* joined = str_join_n(tokens, sep), on the list the last split returned
Join(sep, ok) ==
    /\ call.op = "str_split"
    /\ list # 0
    /\ LET str == Tokens(heap, list)
           r == str_join_n(str, sep, ok)
       IN  /\ call' = [op |-> "str_join_n", text |-> call.text, ch |-> call.ch,
                       str |-> str, sep |-> sep, failed |-> r.size > 0 /\ ~r.got]
           /\ IF r.got
              THEN /\ heap' = Append(heap, Filled(r).block)
                   /\ ret' = HeapP(Len(heap) + 1)
                   /\ fault' = Filled(r).fault
              ELSE /\ heap' = heap
                   /\ ret' = NULLP
                   /\ fault' = (r.data # <<>>)
    /\ UNCHANGED <<buf, freed, list, wr>>

\* Copy that hands the caller its own buffer when the result equals the text
CopyShared(c, r) ==
    /\ call.op = "none"
    /\ IF r.got /\ r.data = buf
       THEN /\ heap' = <<>>
            /\ ret' = BufP
            /\ fault' = FALSE
       ELSE IF r.got
       THEN /\ heap' = << Filled(r).block >>
            /\ ret' = HeapP(1)
            /\ fault' = Filled(r).fault
       ELSE /\ heap' = <<>>
            /\ ret' = NULLP
            /\ fault' = (r.data # <<>>)
    /\ freed' = <<>>
    /\ list' = 0
    /\ call' = [c EXCEPT !.failed = r.size # 0 /\ ~r.got]
    /\ UNCHANGED <<buf, wr>>

\* a copying call c that yields r, made while the caller holds nothing
Copy(c, r) ==
    /\ call.op = "none"
    /\ IF r.got
       THEN /\ heap' = << Filled(r).block >>
            /\ ret' = HeapP(1)
            /\ fault' = Filled(r).fault
       ELSE /\ heap' = <<>>
            /\ ret' = NULLP
            /\ fault' = (r.data # <<>>)
    /\ freed' = <<>>
    /\ list' = 0
    /\ call' = [c EXCEPT !.failed = r.size # 0 /\ ~r.got]
    /\ UNCHANGED <<buf, wr>>

\* a copying call c with sizes computed in int that yields r: as Copy, but a
\* call that stopped at an overflow or read outside the buffer of its text has
\* no outcome to speak of, only the fault
CopyInt(c, r) ==
    /\ call.op = "none"
    /\ IF "trap" \in DOMAIN r /\ (r.trap \/ r.over)
       THEN /\ heap' = <<>>
            /\ ret' = NULLP
            /\ fault' = TRUE
            /\ freed' = <<>>
            /\ list' = 0
            /\ call' = c
            /\ UNCHANGED <<buf, wr>>
       ELSE Copy(c, r)

\* an in-place call c on the caller's buffer that yields r
InPlace(c, r) ==
    /\ call.op = "none"
    /\ buf' = r.s
    /\ wr' = r.wr
    /\ ret' = r.ret
    /\ fault' = ~(r.wr \subseteq 0..(Len(buf) - 1))
    /\ call' = c
    /\ UNCHANGED <<heap, freed, list>>

JoinArr(str, sep, ok) ==
    Copy([op |-> "str_join_n", text |-> Absent, ch |-> NUL, str |-> str,
          sep |-> sep, failed |-> FALSE],
         str_join_n(str, sep, ok))

SubstringN(start, length, ok, wraps) ==
    LET r == str_substring_n(buf, start, length, ok, wraps)
    IN  CopyInt([op |-> "str_substring_n", text |-> buf, start |-> start,
                 length |-> length, failed |-> FALSE, size |-> r.size,
                 last |-> r.last, trap |-> r.trap],
                r)

ReverseN(ok) ==
    Copy([op |-> "str_reverse_n", text |-> buf, failed |-> FALSE],
         str_reverse_n(buf, ok))

CapitalizeN(ok) ==
    Copy([op |-> "str_capitalize_n", text |-> buf, failed |-> FALSE],
         str_capitalize_n(buf, ok))

UppercaseN(ok) ==
    Copy([op |-> "str_uppercase_n", text |-> buf, failed |-> FALSE],
         str_uppercase_n(buf, ok))

LowercaseN(ok) ==
    Copy([op |-> "str_lowercase_n", text |-> buf, failed |-> FALSE],
         str_lowercase_n(buf, ok))

ReplaceCharN(find, replace, ok) ==
    Copy([op |-> "str_replace_char_n", text |-> buf, find |-> find,
          replace |-> replace, failed |-> FALSE],
         str_replace_char_n(buf, find, replace, ok))

ConcatN(s2, ok) ==
    Copy([op |-> "str_concat_n", text |-> buf, s2 |-> s2, failed |-> FALSE],
         str_concat_n(buf, s2, ok))

RepeatN(times, ok, wraps) ==
    LET r == str_repeat_n(buf, times, ok, wraps)
    IN  CopyInt([op |-> "str_repeat_n", text |-> buf, times |-> times,
                 failed |-> FALSE, size |-> r.size,
                 trap |-> "trap" \in DOMAIN r],
                r)

TitleN(ok) ==
    Copy([op |-> "str_title_n", text |-> buf, failed |-> FALSE], str_title_n(buf, ok))

TrimN(ok) ==
    Copy([op |-> "str_trim_n", text |-> buf, failed |-> FALSE], str_trim_n(buf, ok))

LtrimN(ok) ==
    Copy([op |-> "str_ltrim_n", text |-> buf, failed |-> FALSE], str_ltrim_n(buf, ok))

RtrimN(ok) ==
    Copy([op |-> "str_rtrim_n", text |-> buf, failed |-> FALSE], str_rtrim_n(buf, ok))

Reverse == InPlace([op |-> "str_reverse", text |-> buf], str_reverse(buf))

Capitalize == InPlace([op |-> "str_capitalize", text |-> buf], str_capitalize(buf))

Uppercase == InPlace([op |-> "str_uppercase", text |-> buf], str_uppercase(buf))

Lowercase == InPlace([op |-> "str_lowercase", text |-> buf], str_lowercase(buf))

Title == InPlace([op |-> "str_title", text |-> buf], str_title(buf))

ReplaceChar(find, replace) ==
    InPlace([op |-> "str_replace_char", text |-> buf, find |-> find,
             replace |-> replace],
            str_replace_char(buf, find, replace))

Trim == InPlace([op |-> "str_trim", text |-> buf], str_trim(buf))

Ltrim == InPlace([op |-> "str_ltrim", text |-> buf], str_ltrim(buf))

Rtrim == InPlace([op |-> "str_rtrim", text |-> buf], str_rtrim(buf))

\* free_strs(tokens), also on the NULL a failed split returned
FreeStrs ==
    /\ \/ call.op = "str_split"
       \/ call.op \in {"str_join_n", "free"} /\ list # 0
    /\ LET m == free_strs([heap |-> heap, freed |-> freed, fault |-> FALSE], list)
       IN  /\ heap' = m.heap
           /\ freed' = m.freed
           /\ fault' = m.fault
    /\ call' = [op |-> "free_strs", ptr |-> list, before |-> freed]
    /\ list' = 0
    /\ ret' = IF ret.base = list THEN NULLP ELSE ret
    /\ UNCHANGED <<buf, wr>>

\* free(joined): the caller releases a buffer a call returned
FreeRet ==
    /\ ret.base \in Live(heap, freed)
    /\ ret.base # list
    /\ LET m == free([heap |-> heap, freed |-> freed, fault |-> FALSE], ret.base)
       IN  /\ heap' = m.heap
           /\ freed' = m.freed
           /\ fault' = m.fault
    /\ call' = [op |-> "free", ptr |-> ret.base]
    /\ ret' = NULLP
    /\ UNCHANGED <<buf, list, wr>>

\* the caller, holding nothing any more, goes on to its next call
Done ==
    /\ call.op # "none"
    /\ Live(heap, freed) = {}
    /\ heap' = <<>>
    /\ freed' = <<>>
    /\ ret' = NULLP
    /\ list' = 0
    /\ call' = NoCall
    /\ wr' = {}
    /\ fault' = FALSE
    /\ UNCHANGED buf

IdxRange == (0 - IdxSpan)..(MaxLen + IdxSpan)

Finds == {NUL, SPACE, 97}
Replacements == {NUL, 45, 97}
Seconds == {Absent, <<NUL>>, <<44, NUL>>, <<97, 32, NUL>>}

\* one life cycle of an allocating call on a text: the call, then the releases
Next ==
    \/ \E d \in Delims, failAt \in 0..(MaxLen + 2) : Split(d, failAt)
    \/ \E sep \in Delims, ok \in BOOLEAN : Join(sep, ok)
    \/ \E start \in IdxRange, length \in IdxRange, ok \in BOOLEAN,
          wraps \in BOOLEAN :
          SubstringN(start, length, ok, wraps)
    \/ \E ok \in BOOLEAN : TitleN(ok)
    \/ \E ok \in BOOLEAN : TrimN(ok)
    \/ \E ok \in BOOLEAN : LtrimN(ok)
    \/ \E ok \in BOOLEAN : RtrimN(ok)
    \/ \E ok \in BOOLEAN : ReverseN(ok)
    \/ \E ok \in BOOLEAN : CapitalizeN(ok)
    \/ \E ok \in BOOLEAN : UppercaseN(ok)
    \/ \E ok \in BOOLEAN : LowercaseN(ok)
    \/ \E find \in Finds, replace \in Replacements, ok \in BOOLEAN :
          ReplaceCharN(find, replace, ok)
    \/ \E s2 \in Seconds, ok \in BOOLEAN : ConcatN(s2, ok)
    \/ \E times \in (0 - 1)..MaxTimes, ok \in BOOLEAN, wraps \in BOOLEAN :
          RepeatN(times, ok, wraps)
    \/ FreeStrs
    \/ FreeRet

Spec == Init /\ [][Next]_vars

\* str_join_n on the arrays a caller builds, the empty array among them
InitJoin == Start(Absent)

NextJoin ==
    \/ \E str \in TokenArrays \cup {Absent}, sep \in Delims, ok \in BOOLEAN :
          JoinArr(str, sep, ok)
    \/ FreeRet

SpecJoin == InitJoin /\ [][NextJoin]_vars

\* the text operations, call after call on one buffer: the in-place ones
\* change it for the calls that follow
TextUnits == {TAB, SPACE, 45, 66, 97}                   \* '-'  'B'  'a'
WideUnits == {8, TAB, LF, VT, FF, CR, 14, SPACE, 97}    \* all whitespace, its neighbours
InitText ==
    \E b \in CStrings(TextUnits, MaxLen) \cup CStrings(WideUnits, MaxWideLen)
             \cup {Absent} : Start(b)

NextText ==
    \/ Reverse
    \/ Capitalize
    \/ Uppercase
    \/ Lowercase
    \/ Title
    \/ \E find \in Finds, replace \in Replacements : ReplaceChar(find, replace)
    \/ Trim
    \/ Ltrim
    \/ Rtrim
    \/ \E ok \in BOOLEAN : TitleN(ok)
    \/ \E ok \in BOOLEAN : TrimN(ok)
    \/ \E ok \in BOOLEAN : LtrimN(ok)
    \/ \E ok \in BOOLEAN : RtrimN(ok)
    \/ FreeRet
    \/ Done

SpecText == InitText /\ [][NextText]_vars

-----------------------------------------------------------------------------
(* The queries and the calls made on what a call returned.  Their notes      *)
(* keep the result, and prev: the note of the call whose result or whose     *)
(* arguments they were made on (NoCall: none).                               *)

SearchUnits == {97, 98}                                 \* 'a'  'b'
\* the ends of the digits, of the capitals, of the small letters, and the
\* units next to them:  / 0 9 :  @ A Z [  ` a z {
ClassUnits == {47, 48, 57, 58, 64, 65, 90, 91, 96, 97, 122, 123}

Patterns == CStrings(SearchUnits, MaxPatLen) \cup {Absent}

\* a text in a buffer longer than it: old bytes lie behind its terminator
Stale(b) == b \o <<98, NUL>>

QueryTexts ==
    CStrings(SearchUnits, MaxLen)
    \cup { Stale(b) : b \in CStrings(SearchUnits, MaxPatLen) }
    \cup CStrings(ClassUnits, MaxClassLen)

\* what the last call returned, as the argument of the next: NULL is no text
Returned == IF ret.base = 0 THEN Absent ELSE heap[ret.base]

\* a call c that only reads the caller's buffer, at the indices rd
Query(c, rd) ==
    /\ call.op = "none"
    /\ call' = c
    /\ fault' = ~(rd \subseteq 0..(Len(buf) - 1))
    /\ UNCHANGED <<buf, heap, freed, ret, list, wr>>

IndexOfStr(substring) ==
    Query([op |-> "index_of_str", text |-> buf, substring |-> substring,
           result |-> index_of_str(buf, substring), prev |-> NoCall], {})

\* str_contains(text, substring) after index_of_str(text, substring)
Contains ==
    /\ call.op = "index_of_str"
    /\ call' = [op |-> "str_contains", text |-> buf, substring |-> call.substring,
                result |-> str_contains(buf, call.substring), prev |-> call]
    /\ UNCHANGED <<buf, heap, freed, ret, list, wr, fault>>

IsNumeric ==
    Query([op |-> "str_is_numeric", text |-> buf, result |-> str_is_numeric(buf),
           prev |-> NoCall], {})

IsAlpha ==
    Query([op |-> "str_is_alpha", text |-> buf, result |-> str_is_alpha(buf),
           prev |-> NoCall], {})

IsAlphaNumeric ==
    Query([op |-> "str_is_alpha_numeric", text |-> buf,
           result |-> str_is_alpha_numeric(buf), prev |-> NoCall], {})

IsEqual(s2) ==
    Query([op |-> "str_is_equal", text |-> buf, s2 |-> s2,
           result |-> str_is_equal(buf, s2), prev |-> NoCall], {})

\* str_is_equal(s2, s1) after str_is_equal(s1, s2)
IsEqualSwapped ==
    /\ call.op = "str_is_equal"
    /\ call.prev = NoCall
    /\ call' = [op |-> "str_is_equal", text |-> call.s2, s2 |-> call.text,
                result |-> str_is_equal(call.s2, call.text), prev |-> call]
    /\ UNCHANGED <<buf, heap, freed, ret, list, wr, fault>>

IsPalindrome ==
    Query([op |-> "str_is_palindrome", text |-> buf,
           result |-> str_is_palindrome(buf), prev |-> NoCall], {})

\* str_is_palindrome(reversed) on the copy str_reverse_n(text) returned
IsPalindromeReversed ==
    /\ call.op = "str_reverse_n"
    /\ "prev" \notin DOMAIN call
    /\ call' = [op |-> "str_is_palindrome", text |-> Returned,
                result |-> str_is_palindrome(Returned), prev |-> call]
    /\ UNCHANGED <<buf, heap, freed, ret, list, wr, fault>>

\* str_reverse_n(reversed) on the copy str_reverse_n(text) returned
ReverseNTwice(ok) ==
    /\ call.op = "str_reverse_n"
    /\ "prev" \notin DOMAIN call
    /\ LET r == str_reverse_n(Returned, ok)
       IN  /\ call' = [op |-> "str_reverse_n", text |-> Returned,
                       failed |-> r.size > 0 /\ ~r.got, prev |-> call]
           /\ IF r.got
              THEN /\ heap' = Append(heap, Filled(r).block)
                   /\ ret' = HeapP(Len(heap) + 1)
                   /\ fault' = Filled(r).fault
              ELSE /\ heap' = heap
                   /\ ret' = NULLP
                   /\ fault' = (r.data # <<>>)
    /\ UNCHANGED <<buf, freed, list, wr>>

StrLen ==
    Query([op |-> "str_len", text |-> buf, result |-> str_len(buf),
           rd |-> IF buf = Absent THEN {} ELSE LenReads(buf), prev |-> NoCall],
          IF buf = Absent THEN {} ELSE LenReads(buf))

FirstChar ==
    Query([op |-> "str_first_char", text |-> buf,
           result |-> str_first_char(buf).ret, rd |-> str_first_char(buf).rd,
           prev |-> NoCall],
          str_first_char(buf).rd)

LastChar ==
    Query([op |-> "str_last_char", text |-> buf,
           result |-> str_last_char(buf).ret, rd |-> str_last_char(buf).rd,
           prev |-> NoCall],
          str_last_char(buf).rd)

CharAt(index) ==
    Query([op |-> "str_char_at", text |-> buf, index |-> index,
           result |-> str_char_at(buf, index).ret, rd |-> str_char_at(buf, index).rd,
           prev |-> NoCall],
          str_char_at(buf, index).rd)

InitQuery == \E b \in QueryTexts \cup {Absent} : Start(b)

NextQuery ==
    \/ \E substring \in Patterns : IndexOfStr(substring)
    \/ Contains
    \/ IsNumeric
    \/ IsAlpha
    \/ IsAlphaNumeric
    \/ \E s2 \in Patterns : IsEqual(s2)
    \/ IsEqualSwapped
    \/ IsPalindrome
    \/ \E ok \in BOOLEAN : ReverseN(ok)
    \/ IsPalindromeReversed
    \/ \E ok \in BOOLEAN : ReverseNTwice(ok)
    \/ StrLen
    \/ FirstChar
    \/ LastChar
    \/ \E index \in IdxRange : CharAt(index)

SpecQuery == InitQuery /\ [][NextQuery]_vars

\* the calls that compute a size in int, with arguments from the ends of the
\* int range; a block above MaxBlock bytes is one the allocator does not give
MaxBlock == 16
IntEdges == {MinInt, 0 - 1, 0, 1, 2, MaxInt - 1, MaxInt}
TimesEdges == {MinInt, 0 - 1, 0, 1, 2, 1073741825, 1431655766, MaxInt}

Given(text, times, ok) ==
    ok => \/ text = Absent
          \/ times <= 0
          \/ str_len(text) = 0
          \/ RepeatRequest(str_len(text), times) <= MaxBlock

InitInt == \E b \in CStrings(SearchUnits, MaxLen) \cup {Absent} : Start(b)

NextInt ==
    \/ \E start \in IntEdges, length \in IntEdges, ok \in BOOLEAN,
          wraps \in BOOLEAN :
          SubstringN(start, length, ok, wraps)
    \/ \E times \in TimesEdges, ok \in BOOLEAN, wraps \in BOOLEAN :
          /\ call.op = "none"
          /\ Given(buf, times, ok)
          /\ RepeatN(times, ok, wraps)
    \/ FreeRet

SpecInt == InitInt /\ [][NextInt]_vars

\* the case conversions and the replacement of a unit, both variants, each
\* called once on a text over the units at the ends of the letter classes
InitCase == \E b \in CStrings(ClassUnits, MaxClassLen) \cup {Absent} : Start(b)

NextCase ==
    \/ Capitalize
    \/ Uppercase
    \/ Lowercase
    \/ \E find \in Finds, replace \in Replacements : ReplaceChar(find, replace)
    \/ \E ok \in BOOLEAN : CapitalizeN(ok)
    \/ \E ok \in BOOLEAN : UppercaseN(ok)
    \/ \E ok \in BOOLEAN : LowercaseN(ok)
    \/ \E find \in Finds, replace \in Replacements, ok \in BOOLEAN :
          ReplaceCharN(find, replace, ok)

SpecCase == InitCase /\ [][NextCase]_vars

\* the in-place operation op on text, with the arguments of the call c
InPlaceCall(op, text, c) ==
    CASE op = "str_reverse" -> str_reverse(text)
      [] op = "str_capitalize" -> str_capitalize(text)
      [] op = "str_uppercase" -> str_uppercase(text)
      [] op = "str_lowercase" -> str_lowercase(text)
      [] op = "str_title" -> str_title(text)
      [] op = "str_trim" -> str_trim(text)
      [] op = "str_ltrim" -> str_ltrim(text)
      [] op = "str_rtrim" -> str_rtrim(text)
      [] op = "str_replace_char" -> str_replace_char(text, c.find, c.replace)

\* op(text) on the buffer op_n(text) was just called on and gave a block for;
\* the caller keeps the copy
Paired(op) ==
    /\ call.op = op \o "_n"
    /\ "prev" \notin DOMAIN call
    /\ ~call.failed
    /\ ret # NULLP
    /\ LET r == InPlaceCall(op, buf, call)
       IN  /\ buf' = r.s
           /\ wr' = r.wr
           /\ fault' = ~(r.wr \subseteq 0..(Len(buf) - 1))
    /\ call' = IF op = "str_replace_char"
               THEN [op |-> op, text |-> buf, find |-> call.find,
                     replace |-> call.replace, prev |-> call]
               ELSE [op |-> op, text |-> buf, prev |-> call]
    /\ UNCHANGED <<heap, freed, list, ret>>

\* str_ltrim(s) on the buffer str_rtrim(s) was just called on
LtrimAfterRtrim ==
    /\ call.op = "str_rtrim"
    /\ "prev" \notin DOMAIN call
    /\ LET r == str_ltrim(buf)
       IN  /\ buf' = r.s
           /\ wr' = r.wr
           /\ ret' = r.ret
           /\ fault' = (fault \/ ~(r.wr \subseteq 0..(Len(buf) - 1)))
    /\ call' = [op |-> "str_ltrim", text |-> buf, prev |-> call]
    /\ UNCHANGED <<heap, freed, list>>

\* each operation that has both variants, the copying one and then the
\* in-place one on the same text; str_rtrim and then str_ltrim
PairedOps ==
    {"str_reverse", "str_capitalize", "str_uppercase", "str_lowercase",
     "str_title", "str_trim", "str_ltrim", "str_rtrim", "str_replace_char"}

NextPair ==
    \/ \E ok \in BOOLEAN : ReverseN(ok)
    \/ \E ok \in BOOLEAN : CapitalizeN(ok)
    \/ \E ok \in BOOLEAN : UppercaseN(ok)
    \/ \E ok \in BOOLEAN : LowercaseN(ok)
    \/ \E ok \in BOOLEAN : TitleN(ok)
    \/ \E ok \in BOOLEAN : TrimN(ok)
    \/ \E ok \in BOOLEAN : LtrimN(ok)
    \/ \E ok \in BOOLEAN : RtrimN(ok)
    \/ \E find \in Finds, replace \in Replacements, ok \in BOOLEAN :
          ReplaceCharN(find, replace, ok)
    \/ \E op \in PairedOps : Paired(op)
    \/ Rtrim
    \/ LtrimAfterRtrim

SpecPair == InitText /\ [][NextPair]_vars

\* every transform called once, on a short text and on no text
CallTexts == CStrings({SPACE, 97}, MaxTokLen) \cup {Absent}

InitCalls == \E b \in CallTexts : Start(b)

NextCalls ==
    \/ Reverse
    \/ Capitalize
    \/ Uppercase
    \/ Lowercase
    \/ Title
    \/ \E find \in Finds, replace \in Replacements : ReplaceChar(find, replace)
    \/ Trim
    \/ Ltrim
    \/ Rtrim
    \/ \E ok \in BOOLEAN : ReverseN(ok)
    \/ \E ok \in BOOLEAN : CapitalizeN(ok)
    \/ \E ok \in BOOLEAN : UppercaseN(ok)
    \/ \E ok \in BOOLEAN : LowercaseN(ok)
    \/ \E ok \in BOOLEAN : TitleN(ok)
    \/ \E find \in Finds, replace \in Replacements, ok \in BOOLEAN :
          ReplaceCharN(find, replace, ok)
    \/ \E ok \in BOOLEAN : TrimN(ok)
    \/ \E ok \in BOOLEAN : LtrimN(ok)
    \/ \E ok \in BOOLEAN : RtrimN(ok)
    \/ \E d \in Delims, failAt \in 0..(MaxLen + 2) : Split(d, failAt)
    \/ \E str \in TokenArrays \cup {Absent}, sep \in Delims, ok \in BOOLEAN :
          JoinArr(str, sep, ok)
    \/ \E times \in (0 - 1)..MaxTimes, ok \in BOOLEAN, wraps \in BOOLEAN :
          RepeatN(times, ok, wraps)
    \/ \E start \in IdxRange, length \in IdxRange, ok \in BOOLEAN,
          wraps \in BOOLEAN :
          SubstringN(start, length, ok, wraps)

SpecCalls == InitCalls /\ [][NextCalls]_vars

-----------------------------------------------------------------------------
(* What the claims are stated with.  None of it uses the operators above:    *)
(* the units of a buffer are those before its first NUL.                     *)

Units(b) ==
    LET n == CHOOSE m \in 0..(Len(b) - 1) :
                 b[m + 1] = NUL /\ \A i \in 1..m : b[i] # NUL
    IN  SubSeq(b, 1, n)

\* the positions of the unit d in the units t
Occurrences(t, d) == { i \in 1..Len(t) : t[i] = d }

\* the j-th boundary of t: 0, then the positions of d in order, then Len(t) + 1
Boundary(t, d, j) ==
    IF j = 0 THEN 0
    ELSE IF j > Cardinality(Occurrences(t, d)) THEN Len(t) + 1
    ELSE CHOOSE p \in Occurrences(t, d) :
             Cardinality({ q \in Occurrences(t, d) : q < p }) = j - 1

\* the j-th maximal d-free segment of t
Segment(t, d, j) == SubSeq(t, Boundary(t, d, j - 1) + 1, Boundary(t, d, j) - 1)

\* the mallocs of a str_split(t, d) in which none fails: the container, the tokens
SplitMallocs(t, d) == Cardinality(Occurrences(Units(t), d)) + 2

\* C1: str_split(t, d) on a present text, when no allocation fails, returns an
\* array of exactly k+1 tokens and then NULL, k the number of occurrences of d
\* in t; the tokens are, in order, the maximal d-free segments of t (so a text
\* without d gives the text, a leading or trailing d an empty token, the empty
\* text one empty token).
C1_SplitTokens ==
    (/\ call.op = "str_split"
     /\ call.text # Absent
     /\ call.failAt \notin 1..SplitMallocs(call.text, call.ch))
    => LET t == Units(call.text)
           k == Cardinality(Occurrences(t, call.ch))
       IN  /\ ret # NULLP
           /\ ret.base \in 1..Len(heap)
           /\ ret.off = 0
           /\ ~fault
           /\ Len(heap[ret.base]) = k + 2
           /\ heap[ret.base][k + 2] = 0
           /\ \A j \in 1..(k + 1) :
                 /\ heap[ret.base][j] \in 1..Len(heap)
                 /\ heap[heap[ret.base][j]] = Append(Segment(t, call.ch, j), NUL)

\* a split on a delimiter that leads, trails and stands between: "", "a", ""
C1_Witness ==
    /\ call.op = "str_split"
    /\ ret # NULLP
    /\ Units(call.text) = <<44, 97, 44>>
    /\ call.ch = 44
    /\ heap[heap[ret.base][1]] = <<NUL>>
    /\ heap[heap[ret.base][2]] = <<97, NUL>>
    /\ heap[heap[ret.base][3]] = <<NUL>>

\* the operations that make one malloc
CopyOps ==
    {"str_join_n", "str_substring_n", "str_title_n", "str_trim_n", "str_ltrim_n",
     "str_rtrim_n", "str_reverse_n", "str_capitalize_n", "str_uppercase_n",
     "str_lowercase_n", "str_replace_char_n", "str_concat_n", "str_repeat_n"}

\* C2: when an allocation of a call fails the call returns NULL and nothing it
\* allocated stays live; a str_split that fails at the container or at its
\* i-th token has freed each token made before, in order, then the container,
\* each exactly once, and hands no array to the caller.
C2_AllocFailure ==
    /\ (/\ call.op = "str_split"
        /\ call.text # Absent
        /\ call.failAt \in 1..SplitMallocs(call.text, call.ch))
       => /\ ret = NULLP
          /\ list = 0
          /\ ~fault
          /\ Len(heap) = call.failAt - 1
          /\ freed = [i \in 1..Len(heap) |-> IF i < Len(heap) THEN i + 1 ELSE 1]
          /\ Live(heap, freed) = {}
    /\ (/\ call.op \in CopyOps
        /\ call.failed)
       => /\ ret = NULLP
          /\ ~fault
          /\ Len(heap) = (IF list = 0 THEN 0 ELSE Len(heap[list]))

\* a split that failed at its third token, two tokens already made
C2_Witness ==
    /\ call.op = "str_split"
    /\ call.text # Absent
    /\ call.failAt = 4
    /\ SplitMallocs(call.text, call.ch) >= 4
    /\ Len(heap) = 3
    /\ ret = NULLP

\* C3: for a present text t and a delimiter d, str_join_n(str_split(t, d), d)
\* has the content of t.
C3_SplitJoinRoundTrip ==
    (/\ call.op = "str_join_n"
     /\ list # 0
     /\ call.sep = call.ch
     /\ ~call.failed)
    => /\ ret # NULLP
       /\ ret.base \in Live(heap, freed)
       /\ ~fault
       /\ heap[ret.base] = Append(Units(call.text), NUL)

\* the round trip of a text in which the delimiter leads and repeats: ",,a"
C3_Witness ==
    /\ call.op = "str_join_n"
    /\ list # 0
    /\ call.sep = call.ch
    /\ call.ch = 44
    /\ ret # NULLP
    /\ Units(call.text) = <<44, 44, 97>>
    /\ Len(call.str) = 4

\* the blocks of the token list at address a: its tokens and its container
ListBlocks(a) == { heap[a][i] : i \in 1..(Len(heap[a]) - 1) } \cup {a}

\* C4: one free_strs on the list a str_split returned frees every token of the
\* split once, in order, then the container once, and leaves no block of the
\* split live; free_strs on NULL frees nothing and does not fault.
C4_FreeStrs ==
    (call.op = "free_strs")
    => /\ ~fault
       /\ list = 0
       /\ IF call.ptr = 0 THEN freed = call.before
          ELSE /\ freed = call.before
                          \o SubSeq(heap[call.ptr], 1, Len(heap[call.ptr]) - 1)
                          \o <<call.ptr>>
               /\ \A a \in ListBlocks(call.ptr) :
                     Cardinality({ i \in 1..Len(freed) : freed[i] = a }) = 1
               /\ Live(heap, freed) \cap ListBlocks(call.ptr) = {}

\* a list of three tokens released: four frees, the container's last
C4_Witness ==
    /\ call.op = "free_strs"
    /\ call.ptr # 0
    /\ Len(heap[call.ptr]) = 4
    /\ call.before = <<>>
    /\ freed = <<2, 3, 4, 1>>

\* the tokens toks with one unit c between each adjacent pair
RECURSIVE Interleave(_, _)
Interleave(toks, c) ==
    IF toks = <<>> THEN <<>>
    ELSE IF Len(toks) = 1 THEN toks[1]
    ELSE toks[1] \o <<c>> \o Interleave(Tail(toks), c)

RECURSIVE SumLen(_)
SumLen(toks) == IF toks = <<>> THEN 0 ELSE Len(toks[1]) + SumLen(Tail(toks))

C6_Substring ==
    (/\ call.op = "str_substring_n"
     /\ call.text # Absent
     /\ ~call.failed)
    => LET t == Units(call.text)
           n == Len(t)
           s == IF call.start > 0 THEN call.start ELSE 0
           m == IF call.length < 0 \/ s + call.length > n THEN n - s
                ELSE call.length
       IN  /\ ret # NULLP
           /\ ret.base \in Live(heap, freed)
           /\ ~fault
           /\ heap[ret.base] = (IF s >= n THEN <<NUL>>
                                ELSE Append(SubSeq(t, s + 1, s + m), NUL))

\* a negative start with a length that stays inside: (" ,a", -1, 2) is " ,"
C6_Witness ==
    /\ call.op = "str_substring_n"
    /\ call.text = <<32, 44, 97, NUL>>
    /\ call.start < 0
    /\ call.length = 2
    /\ ret # NULLP
    /\ heap[ret.base] = <<32, 44, NUL>>

\* whitespace: space, tab, newline, carriage return, form feed, vertical tab
Whitespace == {32, 9, 10, 13, 12, 11}

NonWhite(t) == { i \in 1..Len(t) : t[i] \notin Whitespace }

First(S) == CHOOSE i \in S : \A j \in S : i <= j
Last(S) == CHOOSE i \in S : \A j \in S : j <= i

TrimmedBoth(t) ==
    IF NonWhite(t) = {} THEN <<>> ELSE SubSeq(t, First(NonWhite(t)), Last(NonWhite(t)))
TrimmedLeft(t) ==
    IF NonWhite(t) = {} THEN <<>> ELSE SubSeq(t, First(NonWhite(t)), Len(t))
TrimmedRight(t) ==
    IF NonWhite(t) = {} THEN <<>> ELSE SubSeq(t, 1, Last(NonWhite(t)))

\* what a trimming operation is to leave of the units t
Trimmed(op, t) ==
    IF op \in {"str_trim", "str_trim_n"} THEN TrimmedBoth(t)
    ELSE IF op \in {"str_ltrim", "str_ltrim_n"} THEN TrimmedLeft(t)
    ELSE TrimmedRight(t)

\* C7: on a present text t, str_trim and str_trim_n yield t from its first to
\* its last non-whitespace unit, str_ltrim and str_ltrim_n from the first one
\* to the end, str_rtrim and str_rtrim_n from the start to the last one;
\* whitespace inside is kept, and a text of whitespace only (or empty) yields
\* the empty text, not an error.
C7_Trim ==
    /\ (call.op \in {"str_trim", "str_ltrim", "str_rtrim"} /\ call.text # Absent)
       => /\ ret # NULLP
          /\ Units(buf) = Trimmed(call.op, Units(call.text))
    /\ (/\ call.op \in {"str_trim_n", "str_ltrim_n", "str_rtrim_n"}
        /\ call.text # Absent
        /\ ~call.failed)
       => /\ ret # NULLP
          /\ ret.base \in Live(heap, freed)
          /\ heap[ret.base] = Append(Trimmed(call.op, Units(call.text)), NUL)

\* a copy trimmed at both ends, of a text that had whitespace at both
C7_Witness ==
    /\ call.op = "str_trim_n"
    /\ call.text # Absent
    /\ Units(call.text) = <<9, 97, 32>>
    /\ ret # NULLP
    /\ heap[ret.base] = <<97, NUL>>

\* no whitespace unit at either end of the units t
NoWhiteEnds(t) == t = <<>> \/ (t[1] \notin Whitespace /\ t[Len(t)] \notin Whitespace)

\* C8: the result of str_trim and of str_trim_n has no whitespace unit at its
\* first or last position, and trimming that result again gives the same
\* content.
C8_TrimIdempotent ==
    /\ (call.op = "str_trim" /\ call.text # Absent)
       => /\ NoWhiteEnds(Units(buf))
          /\ Units(str_trim(buf).s) = Units(buf)
          /\ Units(str_trim_n(buf, TRUE).data) = Units(buf)
    /\ (call.op = "str_trim_n" /\ ret # NULLP)
       => /\ NoWhiteEnds(Units(heap[ret.base]))
          /\ Units(str_trim(heap[ret.base]).s) = Units(heap[ret.base])
          /\ Units(str_trim_n(heap[ret.base], TRUE).data) = Units(heap[ret.base])

\* a trim that dropped two trailing units and left a text to trim again
C8_Witness ==
    /\ call.op = "str_trim"
    /\ call.text # Absent
    /\ Units(call.text) = <<97, 32, 9>>
    /\ Units(buf) = <<97>>

InPlaceOps ==
    {"str_trim", "str_ltrim", "str_rtrim", "str_reverse", "str_capitalize",
     "str_uppercase", "str_lowercase", "str_title", "str_replace_char"}

Trimming == {"str_trim", "str_ltrim", "str_rtrim"}

\* what every in-place call on a present text of n units does, whatever it is
InPlaceFrame ==
    LET n == Len(Units(call.text))
    IN  /\ wr \subseteq 0..n
        /\ ~fault
        /\ heap = <<>>
        /\ ret = BufP
        /\ Len(buf) = Len(call.text)
        /\ \E i \in 0..n : At(buf, i) = NUL
        /\ Len(Units(buf)) <= n

UpperOf(c) == IF c \in 97..122 THEN c - 32 ELSE c
LowerOf(c) == IF c \in 65..90 THEN c + 32 ELSE c

\* title case of the units t: whitespace as it is, the first unit of each run
\* of non-whitespace upper-cased, the others lower-cased
TitleOf(t) ==
    [i \in 1..Len(t) |->
        IF t[i] \in Whitespace THEN t[i]
        ELSE IF i = 1 \/ t[i - 1] \in Whitespace THEN UpperOf(t[i])
        ELSE LowerOf(t[i])]

\* C10: str_title and str_title_n give a text of the same length in which
\* every whitespace unit is unchanged, the first unit of every maximal run of
\* non-whitespace units is the upper-case mapping of the original and every
\* other unit of the run its lower-case mapping; a non-letter is unchanged and
\* still uses up the start of the word.
C10_Title ==
    /\ (call.op = "str_title" /\ call.text # Absent)
       => /\ ret # NULLP
          /\ Units(buf) = TitleOf(Units(call.text))
    /\ (call.op = "str_title_n" /\ call.text # Absent /\ ~call.failed)
       => /\ ret # NULLP
          /\ ret.base \in Live(heap, freed)
          /\ heap[ret.base] = Append(TitleOf(Units(call.text)), NUL)

\* a word that a non-letter starts: "-B " becomes "-b "
C10_Witness ==
    /\ call.op = "str_title"
    /\ call.text # Absent
    /\ Units(call.text) = <<45, 66, 32>>
    /\ Units(buf) = <<45, 98, 32>>


\* the indices at which the units p occur in the units t, all of p inside t
Matches(t, p) == { i \in 0..(Len(t) - Len(p)) : SubSeq(t, i + 1, i + Len(p)) = p }

\* C11: for present t and p, index_of_str(t, p) returns the least index at
\* which p occurs in t, and -1 if p occurs nowhere in t; an empty p gives 0
\* for every t, the empty t too; an absent t or p gives -1.  The result is
\* never an index at which p does not fit inside t.
C11_IndexOfStr ==
    call.op = "index_of_str"
    => IF call.text = Absent \/ call.substring = Absent THEN call.result = 0 - 1
       ELSE LET t == Units(call.text)
                p == Units(call.substring)
            IN  /\ call.result = (IF Matches(t, p) = {} THEN 0 - 1
                                  ELSE First(Matches(t, p)))
                /\ p = <<>> => call.result = 0
                /\ call.result # 0 - 1 => call.result + Len(p) <= Len(t)

\* "ab" in "aab": the match at index 0 breaks off, the one at index 1 holds
C11_Witness ==
    /\ call.op = "index_of_str"
    /\ call.text = <<97, 97, 98, NUL>>
    /\ call.substring = <<97, 98, NUL>>
    /\ call.result = 1

\* C12: for all texts t and patterns p, absent and empty ones among them,
\* str_contains(t, p) is true exactly when index_of_str(t, p) yields a
\* position (a value >= 0) and false exactly when it yields -1.
C12_Contains ==
    call.op = "str_contains"
    => /\ call.prev.op = "index_of_str"
       /\ call.prev.text = call.text
       /\ call.prev.substring = call.substring
       /\ call.result \in {0, 1}
       /\ call.result = 1 <=> call.prev.result >= 0
       /\ call.result = 0 <=> call.prev.result = 0 - 1

\* the pattern found at the very start of the text, which index 0 reports
C12_Witness ==
    /\ call.op = "str_contains"
    /\ call.text = <<97, 98, NUL>>
    /\ call.substring = <<97, NUL>>
    /\ call.prev.result = 0
    /\ call.result = 1

\* the units t, last first
Reversed(t) == [i \in 1..Len(t) |-> t[Len(t) + 1 - i]]

\* C13: str_reverse_n(t) has, at every index i, the unit of t at index
\* len-1-i, and the empty text reverses to the empty text; reversing the copy
\* again with str_reverse_n gives a text of the length of t with the same
\* bytes.
C13_ReverseTwice ==
    (/\ call.op = "str_reverse_n"
     /\ call.text # Absent
     /\ ~call.failed)
    => /\ ret.base \in Live(heap, freed)
       /\ ~fault
       /\ heap[ret.base] = Append(Reversed(Units(call.text)), NUL)
       /\ Units(call.text) = <<>> => heap[ret.base] = <<NUL>>
       /\ "prev" \in DOMAIN call
          => /\ call.prev.op = "str_reverse_n"
             /\ call.prev.text # Absent
             /\ Len(Units(heap[ret.base])) = Len(Units(call.prev.text))
             /\ heap[ret.base] = Append(Units(call.prev.text), NUL)

\* "abb" reversed to "bba" and that copy reversed again
C13_Witness ==
    /\ call.op = "str_reverse_n"
    /\ "prev" \in DOMAIN call
    /\ call.prev.text = <<97, 98, 98, NUL>>
    /\ call.text = <<98, 98, 97, NUL>>
    /\ ret = HeapP(2)
    /\ heap[2] = <<97, 98, 98, NUL>>

\* the units t read the same from both ends
Palindromic(t) == \A i \in 1..Len(t) : t[i] = t[Len(t) + 1 - i]

\* C14: str_is_palindrome returns false for an absent text, true for every
\* text of at most one unit, and otherwise true exactly when the unit at i
\* equals the unit at len-1-i for every i; so for every non-empty text t,
\* str_is_palindrome(str_reverse_n(t)) equals str_is_palindrome(t).
C14_Palindrome ==
    call.op = "str_is_palindrome"
    => /\ call.result \in {0, 1}
       /\ call.text = Absent => call.result = 0
       /\ call.text # Absent
          => /\ Len(Units(call.text)) <= 1 => call.result = 1
             /\ call.result = 1 <=> Palindromic(Units(call.text))
       /\ (/\ call.prev.op = "str_reverse_n"
           /\ call.prev.text # Absent
           /\ ~call.prev.failed)
          => /\ call.text # Absent
             /\ Units(call.prev.text) # <<>>
                => call.result = str_is_palindrome(call.prev.text)

\* "abb" is no palindrome, and its reversed copy "bba" is none either
C14_Witness ==
    /\ call.op = "str_is_palindrome"
    /\ call.prev.op = "str_reverse_n"
    /\ call.prev.text = <<97, 98, 98, NUL>>
    /\ call.text = <<98, 98, 97, NUL>>
    /\ call.result = 0

Digits == 48..57
Letters == (65..90) \cup (97..122)

\* the class of units each validation accepts
ClassOf(op) ==
    IF op = "str_is_numeric" THEN Digits
    ELSE IF op = "str_is_alpha" THEN Letters
    ELSE Digits \cup Letters

\* C15: str_is_numeric, str_is_alpha and str_is_alpha_numeric each return true
\* exactly when the text is present, not empty, and every unit of it is a
\* digit, a letter, or either of the two; all three return false for an empty
\* and for an absent text, and one unit outside the class, wherever it
\* stands, makes the result false.
C15_Validate ==
    call.op \in {"str_is_numeric", "str_is_alpha", "str_is_alpha_numeric"}
    => /\ call.result \in {0, 1}
       /\ call.result = 1
          <=> /\ call.text # Absent
              /\ Units(call.text) # <<>>
              /\ \A i \in 1..Len(Units(call.text)) :
                    Units(call.text)[i] \in ClassOf(call.op)
       /\ (call.text = Absent \/ call.text = <<NUL>>) => call.result = 0
       /\ (/\ call.text # Absent
           /\ \E i \in 1..Len(Units(call.text)) :
                 Units(call.text)[i] \notin ClassOf(call.op))
          => call.result = 0

\* "z:" is not alphanumeric: ':' comes right after the digits
C15_Witness ==
    /\ call.op = "str_is_alpha_numeric"
    /\ call.text = <<122, 58, NUL>>
    /\ call.result = 0

\* the units a are the first units of b, and b has more
ProperPrefix(a, b) == Len(a) < Len(b) /\ SubSeq(b, 1, Len(a)) = a

\* C16: str_is_equal(a, b) returns true when both are absent, false when one
\* of the two is, and otherwise true exactly when a and b have the same
\* length and the same unit at every index; it is false whenever one is a
\* proper prefix of the other, and str_is_equal(b, a) returns the same.
C16_Equal ==
    call.op = "str_is_equal"
    => /\ call.result \in {0, 1}
       /\ (call.text = Absent /\ call.s2 = Absent) => call.result = 1
       /\ ((call.text = Absent) # (call.s2 = Absent)) => call.result = 0
       /\ (call.text # Absent /\ call.s2 # Absent)
          => LET a == Units(call.text)
                 b == Units(call.s2)
             IN  /\ call.result = 1
                    <=> /\ Len(a) = Len(b)
                        /\ \A i \in 1..Len(a) : a[i] = b[i]
                 /\ (ProperPrefix(a, b) \/ ProperPrefix(b, a)) => call.result = 0
       /\ call.prev.op = "str_is_equal"
          => /\ call.prev.text = call.s2
             /\ call.prev.s2 = call.text
             /\ call.result = call.prev.result

\* "a" against "ab", after "ab" against "a": a proper prefix, unequal both ways
C16_Witness ==
    /\ call.op = "str_is_equal"
    /\ call.prev.op = "str_is_equal"
    /\ call.text = <<97, NUL>>
    /\ call.s2 = <<97, 98, NUL>>
    /\ call.result = 0
    /\ call.prev.result = 0

\* C17: for a present text t and a small integer times, str_repeat_n(t, times)
\* returns an empty buffer of its own when times <= 0 or t is empty, and
\* otherwise a buffer of length len(t) * times whose unit at index k is the
\* unit of t at index k mod len(t); an absent t gives NULL.
C17_Repeat ==
    call.op = "str_repeat_n"
    => /\ call.text = Absent => (ret = NULLP /\ heap = <<>>)
       /\ (call.text # Absent /\ ~call.failed)
          => LET t == Units(call.text)
                 n == Len(t)
             IN  /\ ret.base \in Live(heap, freed)
                 /\ ~fault
                 /\ (call.times <= 0 \/ n = 0) => heap[ret.base] = <<NUL>>
                 /\ (call.times > 0 /\ n > 0)
                    => /\ Len(Units(heap[ret.base])) = n * call.times
                       /\ heap[ret.base] =
                            [k \in 1..(n * call.times + 1) |->
                                IF k <= n * call.times THEN t[((k - 1) % n) + 1]
                                ELSE NUL]

\* ", a" twice: ", a, a"
C17_Witness ==
    /\ call.op = "str_repeat_n"
    /\ call.text = <<44, 32, 97, NUL>>
    /\ call.times = 2
    /\ ret = HeapP(1)
    /\ heap[1] = <<44, 32, 97, 44, 32, 97, NUL>>

\* the units of an operand of str_concat_n, none for an absent one
OperandUnits(s) == IF s = Absent THEN <<>> ELSE Units(s)

\* C18: str_concat_n(a, b) takes an absent operand for the empty text and
\* never returns NULL because an operand is absent: the result has length
\* len(a) + len(b), the units of a followed by those of b, and two absent
\* operands give an empty buffer.
C18_Concat ==
    call.op = "str_concat_n"
    => /\ ret = NULLP <=> call.failed
       /\ ~call.failed
          => LET a == OperandUnits(call.text)
                 b == OperandUnits(call.s2)
             IN  /\ ret.base \in Live(heap, freed)
                 /\ ~fault
                 /\ Len(Units(heap[ret.base])) = Len(a) + Len(b)
                 /\ heap[ret.base] = a \o b \o <<NUL>>
                 /\ (call.text = Absent /\ call.s2 = Absent)
                    => heap[ret.base] = <<NUL>>

\* an absent first operand and "a " as the second: the copy is "a "
C18_Witness ==
    /\ call.op = "str_concat_n"
    /\ call.text = Absent
    /\ call.s2 = <<97, 32, NUL>>
    /\ ret = HeapP(1)
    /\ heap[1] = <<97, 32, NUL>>

\* the number of units of a text, none for an absent one
LengthOf(b) == IF b = Absent THEN 0 ELSE Len(Units(b))

\* the unit of a text at the C index i, the zero unit where it has none
UnitAt(b, i) == IF i \in 0..(LengthOf(b) - 1) THEN Units(b)[i + 1] ELSE NUL

\* C19: str_char_at(t, index) returns the unit of t at index when
\* 0 <= index < len(t), and the zero unit when index is negative, when
\* index >= len(t) and when t is absent, and reads nothing outside
\* [0, len(t)]; str_first_char(t) equals str_char_at(t, 0) and str_last_char(t)
\* equals str_char_at(t, len(t) - 1), both the zero unit for an absent and for
\* an empty t; str_len returns the number of units before the terminator, 0
\* for an absent text.
C19_CharAccess ==
    /\ call.op \in {"str_char_at", "str_first_char", "str_last_char", "str_len"}
       => /\ ~fault
          /\ call.rd \subseteq (IF call.text = Absent THEN {}
                                ELSE 0..LengthOf(call.text))
    /\ call.op = "str_char_at"
       => /\ call.result = UnitAt(call.text, call.index)
          /\ (call.index < 0 \/ call.index >= LengthOf(call.text))
             => call.result = NUL
    /\ call.op = "str_first_char"
       => /\ call.result = UnitAt(call.text, 0)
          /\ call.result = str_char_at(call.text, 0).ret
          /\ LengthOf(call.text) = 0 => call.result = NUL
    /\ call.op = "str_last_char"
       => /\ call.result = UnitAt(call.text, LengthOf(call.text) - 1)
          /\ call.result = str_char_at(call.text, LengthOf(call.text) - 1).ret
          /\ LengthOf(call.text) = 0 => call.result = NUL
    /\ call.op = "str_len"
       => call.result = LengthOf(call.text)

\* index 2 of the text "a" in a buffer that still holds a 'b' there
C19_Witness ==
    /\ call.op = "str_char_at"
    /\ call.text = <<97, NUL, 98, NUL>>
    /\ call.index = 2
    /\ call.result = NUL
    /\ call.rd = {0, 1}

\* the transforms that return NULL for an absent text: the in-place ones, the
\* copying ones but str_concat_n, and str_split
Transforms == InPlaceOps \cup (CopyOps \ {"str_concat_n"}) \cup {"str_split"}

\* the last call was given no text (str_join_n: no array)
AbsentInput == IF call.op = "str_join_n" THEN call.str = Absent ELSE call.text = Absent

\* C20: every in-place and every copying transform (reverse, capitalize,
\* uppercase, lowercase, title, trim, ltrim, rtrim, replace_char and their _n
\* variants, str_split, str_join_n, str_repeat_n, str_substring_n) called with
\* an absent text returns NULL, allocates nothing and writes to no buffer.
C20_AbsentInput ==
    (call.op \in Transforms /\ AbsentInput)
    => /\ ret = NULLP
       /\ list = 0
       /\ heap = <<>>
       /\ freed = <<>>
       /\ wr = {}
       /\ ~fault
       /\ call.op # "str_join_n" => buf = Absent
       /\ call.op \in CopyOps => ~call.failed

\* str_capitalize(NULL), which returns the text it was given: NULL
C20_Witness ==
    /\ call.op = "str_capitalize"
    /\ call.text = Absent
    /\ buf = Absent
    /\ ret = NULLP
    /\ wr = {}

\* the block b holds a text: units, none of them as malloc left it, and a NUL
Terminated(b) ==
    \E m \in 1..Len(b) : b[m] = NUL /\ \A i \in 1..(m - 1) : b[i] \in 1..255

\* C21: every copying operation (the _n functions and str_split) leaves the
\* units and the length of its input buffers as they were, and a result that
\* is not NULL is a newly allocated, terminated buffer other than any input
\* (also when its content equals the input or is empty), held by the caller
\* alone.
C21_CopyFrame ==
    /\ call.op \in CopyOps \cup {"str_split"}
       => /\ buf = call.text
          /\ wr = {}
          /\ ~fault
    /\ (call.op \in CopyOps /\ ret # NULLP)
       => /\ ret.base \in Live(heap, freed)
          /\ ret.off = 0
          /\ Terminated(heap[ret.base])
          /\ list # 0
             => /\ ret.base \notin ListBlocks(list)
                /\ call.str = Tokens(heap, list)
    /\ (call.op = "str_split" /\ ret # NULLP)
       => LET arr == heap[ret.base]
              n == Len(arr) - 1
          IN  /\ ret.base \in Live(heap, freed)
              /\ ret.off = 0
              /\ list = ret.base
              /\ arr[n + 1] = 0
              /\ \A j \in 1..n :
                    /\ arr[j] \in Live(heap, freed) \ {ret.base}
                    /\ Terminated(heap[arr[j]])
              /\ Cardinality({ arr[j] : j \in 1..n }) = n

\* str_trim_n of "a", which has nothing to trim: the copy equals the text and
\* still is a block of its own
C21_Witness ==
    /\ call.op = "str_trim_n"
    /\ call.text = <<97, NUL>>
    /\ buf = <<97, NUL>>
    /\ ret = HeapP(1)
    /\ heap[1] = <<97, NUL>>

\* the units t with every unit equal to find replaced
Replaced(t, find, replace) ==
    [i \in 1..Len(t) |-> IF t[i] = find THEN replace ELSE t[i]]

\* what a case conversion or a replacement makes of the units t
Converted(c, t) ==
    IF c.op \in {"str_uppercase", "str_uppercase_n"}
    THEN [i \in 1..Len(t) |-> UpperOf(t[i])]
    ELSE IF c.op \in {"str_lowercase", "str_lowercase_n"}
    THEN [i \in 1..Len(t) |-> LowerOf(t[i])]
    ELSE IF c.op \in {"str_capitalize", "str_capitalize_n"}
    THEN [i \in 1..Len(t) |-> IF i = 1 THEN UpperOf(t[i]) ELSE t[i]]
    ELSE Replaced(t, c.find, c.replace)

CaseInPlace == {"str_uppercase", "str_lowercase", "str_capitalize"}
CaseCopies == {"str_uppercase_n", "str_lowercase_n", "str_capitalize_n"}

\* the text the last call left or returned is the units r
LeavesText(r) ==
    IF call.op \in InPlaceOps THEN ret = BufP /\ Units(buf) = r
    ELSE /\ ret.base \in Live(heap, freed)
         /\ Units(heap[ret.base]) = r
         /\ Len(heap[ret.base]) = Len(Units(call.text)) + 1

\* the last call is one of ops on a present text, its allocation not failed
CalledOn(ops) ==
    /\ call.op \in ops
    /\ call.text # Absent
    /\ call.op \in CopyOps => ~call.failed

\* C22 as the claim has it: upper-casing maps every a-z to its A-Z and leaves
\* every other unit, lower-casing maps every A-Z to its a-z, capitalizing maps
\* the first unit only, all keep the length; replace_char changes exactly the
\* units equal to the target, none when the target does not occur.
C22_CaseMapsAsClaimed ==
    CalledOn(CaseInPlace \cup CaseCopies \cup {"str_replace_char", "str_replace_char_n"})
    => LeavesText(Converted(call, Units(call.text)))

\* C22, amended: the conversions are as claimed; replace_char changes exactly
\* the units equal to the target when the replacement is not the NUL unit;
\* with the NUL unit as replacement the text ends where the target first
\* occurred, and is unchanged when it does not occur.
C22_CaseMaps ==
    /\ CalledOn(CaseInPlace \cup CaseCopies)
       => LeavesText(Converted(call, Units(call.text)))
    /\ CalledOn({"str_replace_char", "str_replace_char_n"})
       => LET t == Units(call.text)
          IN  /\ call.replace # NUL => LeavesText(Replaced(t, call.find, call.replace))
              /\ Occurrences(t, call.find) = {} => LeavesText(t)
              /\ (call.replace = NUL /\ Occurrences(t, call.find) # {})
                 => LeavesText(SubSeq(t, 1, First(Occurrences(t, call.find)) - 1))

\* str_replace_char_n("za", 'a', NUL): a block of three bytes holding "z"
C22_Witness ==
    /\ call.op = "str_replace_char_n"
    /\ call.text = <<122, 97, NUL>>
    /\ call.find = 97
    /\ call.replace = NUL
    /\ ret = HeapP(1)
    /\ heap[1] = <<122, NUL, NUL>>


\* C23: whatever ints start and length are, with int arithmetic kept to its
\* low 32 bits, str_substring_n on a present text of n units with
\* max(start, 0) < n and a length that runs past the end of the text asks the
\* allocator for n - max(start, 0) units and one more and reads no unit of
\* the text at an index of n or above.
C23_SubstringClamp ==
    LET n == Len(Units(call.text))
        from == IF call.start < 0 THEN 0 ELSE call.start
    IN  (/\ call.op = "str_substring_n"
         /\ call.text # Absent
         /\ from < n
         /\ call.length > n - from
         /\ ~call.trap)
        => /\ call.size = (n - from) + 1
           /\ call.last < n
           /\ ~fault

\* C23 for the lengths whose sum with start still fits an int
C23_ClampInRange ==
    LET n == Len(Units(call.text))
        from == IF call.start < 0 THEN 0 ELSE call.start
    IN  (/\ call.op = "str_substring_n"
         /\ call.text # Absent
         /\ from < n
         /\ call.length > n - from
         /\ call.length <= MaxInt - from)
        => /\ ~call.trap
           /\ call.size = (n - from) + 1
           /\ call.last < n
           /\ ~fault

\* "ab" cut from 1 with a length of MaxInt: 1 + MaxInt wraps below zero, the
\* length stays, and malloc is asked for MaxInt + 1, wrapped
C23_Witness ==
    /\ call.op = "str_substring_n"
    /\ call.text = <<97, 98, NUL>>
    /\ call.start = 1
    /\ call.length = MaxInt
    /\ ~call.trap
    /\ call.size = MinInt
    /\ ret = NULLP

\* "aab" cut from 2 with a length of MaxInt - 1: the block of MaxInt bytes
\* is given and the loop reads on behind the terminator of the text
C23_ReadsOn ==
    /\ call.op = "str_substring_n"
    /\ call.text = <<97, 97, 98, NUL>>
    /\ call.start = 2
    /\ call.length = MaxInt - 1
    /\ ~call.trap
    /\ call.size = MaxInt
    /\ call.last = 4
    /\ fault

\* C24: with int arithmetic kept to its low 32 bits, str_repeat_n on a text
\* of len > 0 units and times > 0 asks the allocator for at least the
\* len * times units and the terminator its loop writes, so that no write
\* falls outside the block.
C24_RepeatFits ==
    LET len == Len(Units(call.text))
    IN  (/\ call.op = "str_repeat_n"
         /\ call.text # Absent
         /\ len > 0
         /\ call.times > 0
         /\ ~call.trap)
        => /\ call.size >= 1
           /\ call.times <= (call.size - 1) \div len
           /\ ~fault

\* C24 for the products that fit an int together with the terminator
C24_FitsInRange ==
    LET len == Len(Units(call.text))
    IN  (/\ call.op = "str_repeat_n"
         /\ call.text # Absent
         /\ len > 0
         /\ call.times > 0
         /\ call.times <= (MaxInt - 1) \div len)
        => /\ ~call.trap
           /\ call.size >= 1
           /\ call.times <= (call.size - 1) \div len
           /\ ~fault

\* "aab" 1431655766 times: 3 * 1431655766 is 2^32 + 2, a block of 3 bytes
\* is given and the loop writes behind it
C24_Witness ==
    /\ call.op = "str_repeat_n"
    /\ call.text = <<97, 97, 98, NUL>>
    /\ call.times = 1431655766
    /\ ~call.trap
    /\ call.size = 3
    /\ heap = << <<97, 97, 98>> >>
    /\ fault

\* the copying variant of an in-place operation
CopyOf(op) ==
    CASE op = "str_reverse" -> "str_reverse_n"
      [] op = "str_capitalize" -> "str_capitalize_n"
      [] op = "str_uppercase" -> "str_uppercase_n"
      [] op = "str_lowercase" -> "str_lowercase_n"
      [] op = "str_title" -> "str_title_n"
      [] op = "str_trim" -> "str_trim_n"
      [] op = "str_ltrim" -> "str_ltrim_n"
      [] op = "str_rtrim" -> "str_rtrim_n"
      [] op = "str_replace_char" -> "str_replace_char_n"
      [] OTHER -> "none"

\* the in-place call made after the copying call of its operation on a text
AfterCopy ==
    /\ call.op \in InPlaceOps
    /\ "prev" \in DOMAIN call
    /\ call.prev.op = CopyOf(call.op)

\* C25: for every present text and each of reverse, capitalize, uppercase,
\* lowercase, title, trim, ltrim, rtrim and replace_char, the in-place variant
\* leaves the buffer of the text with the units, and so the length, of the
\* block the copying variant returned for the same text when its allocation
\* succeeded; and str_ltrim after str_rtrim leaves the units str_trim leaves.
C25_Variants ==
    /\ AfterCopy
       => /\ call.text = call.prev.text
          /\ call.text # Absent
          /\ Terminated(heap[ret.base])
          /\ Units(buf) = Units(heap[ret.base])
          /\ Len(Units(buf)) = str_len(heap[ret.base])
          /\ ~fault
    /\ (call.op = "str_ltrim" /\ "prev" \in DOMAIN call /\ call.prev.op = "str_rtrim"
        /\ call.prev.text # Absent)
       => /\ Units(buf) = Units(str_trim(call.prev.text).s)
          /\ Units(buf) = TrimmedBoth(Units(call.prev.text))
          /\ ~fault

\* str_trim_n and then str_trim of " a ", both leaving "a"; the buffer keeps
\* its four bytes
C25_Witness ==
    /\ AfterCopy
    /\ call.op = "str_trim"
    /\ call.text = <<SPACE, 97, SPACE, NUL>>
    /\ heap[ret.base] = <<97, NUL>>
    /\ Units(buf) = <<97>>
    /\ Len(buf) = 4
====
